---- MODULE Spec2Model ----
(***************************************************************************)
(* Model of src/gemini_tools.py: the tool catalog TOOL_SCHEMAS, the        *)
(* dispatcher ToolExecutor.execute_tool, its three handlers and the        *)
(* formatter format_tool_result_for_prompt.                                *)
(*                                                                         *)
(* Python text is a sequence of atoms.  Data strings (sources, document    *)
(* names, queries, numerals) are made of one-character atoms, so that      *)
(* lower(), `in`, str() and int() are computed character by character.     *)
(* A literal fragment of the code ("Query is required") is one atom.       *)
(* A dict is a TLA+ record whose DOMAIN is the set of keys present.        *)
(***************************************************************************)
EXTENDS Integers, Sequences, FiniteSets, TLC

\* ------------------------------------------------------------------ bounds
\* longest retrieval result / document collection the collaborator returns
MaxDocs == 3
\* integer top_k values range over -MaxTopK .. MaxTopK
MaxTopK == 2

\* ------------------------------------------------------- program constants
\* args.get("top_k", 8) in _retrieve_documents
DefaultTopK == 8
\* args.get("top_k", 5) in _search_specific_document
DefaultTopKSpecific == 5

\* ---------------------------------------------------------------- Python text
Text(s) == <<s>>

\* str.lower() on one character
LowerChar(c) ==
    CASE c = "A" -> "a"
      [] c = "B" -> "b"
      [] c = "N" -> "n"
      [] c = "U" -> "u"
      [] c = "X" -> "x"
      [] OTHER -> c

\* str.lower()
lower(s) == [i \in 1..Len(s) |-> LowerChar(s[i])]

\* Python `sub in s` on strings
contains(sub, s) ==
    \E i \in 0..(Len(s) - Len(sub)) : SubSeq(s, i + 1, i + Len(sub)) = sub

\* Python slice xs[:k] for any integer k (a negative k counts from the end)
SliceTo(xs, k) ==
    IF k >= 0
    THEN SubSeq(xs, 1, IF k < Len(xs) THEN k ELSE Len(xs))
    ELSE SubSeq(xs, 1, IF Len(xs) + k > 0 THEN Len(xs) + k ELSE 0)

\* ------------------------------------------------------------- Python values
\* every value is [t: its type, n: its integer payload, s: its text payload]
PyInt(n) == [t |-> "int", n |-> n, s |-> <<>>]
PyStr(s) == [t |-> "str", n |-> 0, s |-> s]
PyNone == [t |-> "NoneType", n |-> 0, s |-> <<>>]
\* a non-finite float carries its text (inf, -inf, nan) in s; a finite float
\* has s empty and carries its value in tenths in n (25 is 2.5)
PyFloat(tenths) == [t |-> "float", n |-> tenths, s |-> <<>>]
PyInf == [t |-> "float", n |-> 0, s |-> <<"i", "n", "f">>]
PyNaN == [t |-> "float", n |-> 0, s |-> <<"n", "a", "n">>]
PyEmptyList == [t |-> "list", n |-> 0, s |-> <<>>]

Digit == <<"0", "1", "2", "3", "4", "5", "6", "7", "8", "9">>
DigitValue(c) == CHOOSE d \in 0..9 : Digit[d + 1] = c
IsDigit(c) == \E d \in 0..9 : Digit[d + 1] = c

RECURSIVE NatToStr(_)
NatToStr(n) ==
    IF n < 10 THEN <<Digit[n + 1]>>
    ELSE NatToStr(n \div 10) \o <<Digit[(n % 10) + 1]>>

IntToStr(n) == IF n < 0 THEN <<"-">> \o NatToStr(-n) ELSE NatToStr(n)

Abs(n) == IF n < 0 THEN -n ELSE n

\* dict.get(key, default)
Get(d, key, default) == IF key \in DOMAIN d THEN d[key] ELSE default

\* hasattr(obj, name) where an object is the record of its attributes
hasattr(obj, name) == name \in DOMAIN obj

\* str(v)
str(v) ==
    CASE v.t = "str" -> v.s
      [] v.t = "int" -> IntToStr(v.n)
      [] v.t = "NoneType" -> <<"N", "o", "n", "e">>
      [] v.t = "list" -> <<"[", "]">>
      [] v.t = "float" ->
            IF v.s # <<>> THEN v.s
            ELSE (IF v.n < 0 THEN <<"-">> ELSE <<>>)
                 \o NatToStr(Abs(v.n) \div 10)
                 \o <<".">> \o <<Digit[(Abs(v.n) % 10) + 1]>>

\* str.strip() for the blank character
RECURSIVE strip(_)
strip(s) ==
    IF s = <<>> THEN s
    ELSE IF Head(s) = " " THEN strip(Tail(s))
    ELSE IF s[Len(s)] = " " THEN strip(SubSeq(s, 1, Len(s) - 1))
    ELSE s

RECURSIVE DigitsValue(_)
DigitsValue(ds) ==
    IF ds = <<>> THEN 0
    ELSE 10 * DigitsValue(SubSeq(ds, 1, Len(ds) - 1)) + DigitValue(ds[Len(ds)])

\* the outcome of int(): exc is "" when it returned val, else the exception
Returned(v) == [exc |-> "", msg |-> <<>>, val |-> v]
Raised(exc, msg) == [exc |-> exc, msg |-> msg, val |-> 0]

\* int("...") : blanks stripped, an optional sign, then one or more digits
ParseInt(s) ==
    LET b == strip(s)
        signed == b # <<>> /\ Head(b) \in {"+", "-"}
        ds == IF signed THEN Tail(b) ELSE b
    IN  IF ds # <<>> /\ \A i \in 1..Len(ds) : IsDigit(ds[i])
        THEN Returned(IF signed /\ Head(b) = "-" THEN -DigitsValue(ds) ELSE DigitsValue(ds))
        ELSE Raised("ValueError", <<"invalid literal for int() with base 10: ">> \o s)

\* int(v)
int(v) ==
    CASE v.t = "int" -> Returned(v.n)
      [] v.t = "str" -> ParseInt(v.s)
      [] v.t = "float" ->
            IF v.s = <<"n", "a", "n">>
            THEN Raised("ValueError", Text("cannot convert float NaN to integer"))
            ELSE IF v.s # <<>>
            THEN Raised("OverflowError", Text("cannot convert float infinity to integer"))
            ELSE Returned(IF v.n < 0 THEN -(Abs(v.n) \div 10) ELSE v.n \div 10)
      [] OTHER -> Raised("TypeError",
                    Text("int() argument must be a string, a bytes-like object or a real number"))

\* ------------------------------------------------------------ tool catalog
\* the names of the entries of TOOL_SCHEMAS, in order
TOOL_SCHEMAS == <<"retrieve_documents", "search_specific_document", "get_document_list">>

CatalogNames == {TOOL_SCHEMAS[i] : i \in 1..Len(TOOL_SCHEMAS)}

\* ---------------------------------------------------------------- documents
\* a Document of the retrieval collaborator: page_content and a metadata dict
Doc(content, md) == [page_content |-> content, metadata |-> md]

Range(xs) == {xs[i] : i \in 1..Len(xs)}

\* the result envelopes the handlers build
ErrorEnvelope(msg) == [error |-> msg, success |-> FALSE]

\* the outcome of a handler: it returned env, or raised exc with message msg;
\* calls is the sequence of collaborator calls it made
NoEnvelope == [raised |-> TRUE]
Return(env, calls) == [exc |-> "", msg |-> <<>>, env |-> env, calls |-> calls]
Raise(exc, msg, calls) == [exc |-> exc, msg |-> msg, env |-> NoEnvelope, calls |-> calls]

InvokeCall(query) == [fn |-> "invoke", query |-> query, docs |-> <<>>]
FilterCall(query, docs) == [fn |-> "filter_documents", query |-> query, docs |-> docs]

\* the projection {content, source, page, type} of a surviving document
Project(doc) ==
    [content |-> doc.page_content,
     source |-> Get(doc.metadata, "source", <<"U", "n", "k", "n", "o", "w", "n">>),
     page |-> Get(doc.metadata, "page", PyStr(<<"?">>)),
     type |-> Get(doc.metadata, "type", <<"t", "e", "x", "t">>)]

\* relevance_checker.filter_documents(query, docs) of a checker that judges
\* the documents of `relevant` relevant: the (document, score) pairs kept
RECURSIVE filter_documents(_, _)
filter_documents(relevant, docs) ==
    IF docs = <<>> THEN <<>>
    ELSE (IF Head(docs) \in relevant THEN <<<<Head(docs), 1>>>> ELSE <<>>)
         \o filter_documents(relevant, Tail(docs))

\* [d for d, s in pairs]
Firsts(pairs) == [i \in 1..Len(pairs) |-> pairs[i][1]]

\* the "Format results" loop of both retrieval handlers
Projected(docs) == [i \in 1..Len(docs) |-> Project(docs[i])]

\* the scoping with the operands of `in` swapped
RECURSIVE ScopedTo_OperandsSwapped(_, _)
ScopedTo_OperandsSwapped(document_name, docs) ==
    IF docs = <<>> THEN <<>>
    ELSE (IF contains(lower(Get(Head(docs).metadata, "source", <<>>)), lower(document_name))
          THEN <<Head(docs)>> ELSE <<>>)
         \o ScopedTo_OperandsSwapped(document_name, Tail(docs))

\* [doc for doc in docs if document_name.lower() in doc.metadata.get("source", "").lower()]
RECURSIVE ScopedTo(_, _)
ScopedTo(document_name, docs) ==
    IF docs = <<>> THEN <<>>
    ELSE (IF contains(lower(document_name), lower(Get(Head(docs).metadata, "source", <<>>)))
          THEN <<Head(docs)>> ELSE <<>>)
         \o ScopedTo(document_name, Tail(docs))

\* try: top_k = int(args.get("top_k", default)) except (ValueError, TypeError)
CoerceTopK(args, default) ==
    LET r == int(Get(args, "top_k", PyInt(default)))
    IN  IF r.exc \in {"ValueError", "TypeError"} THEN Returned(default) ELSE r

HasMetadata(doc) == hasattr(doc, "metadata")

NoMetadataMsg == Text("'Document' object has no attribute 'metadata'")

\* ----------------------------------------------------------------- handlers
\* pipe is self.rag_pipeline (the record of its attributes); world is what the
\* collaborators do during this call: invoke returns world.retrieved or raises,
\* the checker keeps the documents of world.relevant or raises, and the
\* documents attribute reads as world.documents

\* the probe of relevance_checker that precedes a filter_documents call:
\* the message of the AttributeError it raises, empty when the checker is there
CheckerProbe(pipe) ==
    IF ~hasattr(pipe, "relevance_checker")
    THEN Text("'RAGPipeline' object has no attribute 'relevance_checker'")
    ELSE IF pipe.relevance_checker = "None"
    THEN Text("'NoneType' object has no attribute 'filter_documents'")
    ELSE <<>>

\* _retrieve_documents, "Format results" and the final return
RetrieveRespond(filtered_docs, calls) ==
    IF \E d \in Range(filtered_docs) : ~HasMetadata(d)
    THEN Raise("AttributeError", NoMetadataMsg, calls)
    ELSE Return([success |-> TRUE,
                 message |-> Text("Retrieved ") \o IntToStr(Len(filtered_docs))
                             \o Text(" relevant documents"),
                 documents |-> Projected(filtered_docs),
                 count |-> Len(filtered_docs)], calls)

\* _retrieve_documents, "Apply relevance filtering" on top_docs = retrieved_docs[:top_k]
RetrieveFilter(pipe, world, query, top_docs) ==
    IF CheckerProbe(pipe) # <<>>
    THEN Raise("AttributeError", CheckerProbe(pipe), <<InvokeCall(query)>>)
    ELSE IF world.filter_raises
    THEN Raise("RuntimeError", Text("checker failed"),
               <<InvokeCall(query), FilterCall(query, top_docs)>>)
    ELSE RetrieveRespond(Firsts(filter_documents(world.relevant, top_docs)),
                         <<InvokeCall(query), FilterCall(query, top_docs)>>)

\* _retrieve_documents reporting an empty retrieval as a failure
RetrieveInvoke_EmptyIsError(pipe, world, query, top_k) ==
    IF ~hasattr(pipe, "hybrid_retriever")
    THEN Return(ErrorEnvelope(Text("RAG pipeline not initialized")), <<>>)
    ELSE IF pipe.hybrid_retriever = "None"
    THEN Raise("AttributeError", Text("'NoneType' object has no attribute 'invoke'"), <<>>)
    ELSE IF world.invoke_raises
    THEN Raise("RuntimeError", Text("retriever failed"), <<InvokeCall(query)>>)
    ELSE IF world.retrieved = <<>>
    THEN Return(ErrorEnvelope(Text("No relevant documents found")), <<InvokeCall(query)>>)
    ELSE RetrieveFilter(pipe, world, query, SliceTo(world.retrieved, top_k))

\* _retrieve_documents from the hasattr probe on, with query and top_k coerced
RetrieveInvoke(pipe, world, query, top_k) ==
    IF ~hasattr(pipe, "hybrid_retriever")
    THEN Return(ErrorEnvelope(Text("RAG pipeline not initialized")), <<>>)
    ELSE IF pipe.hybrid_retriever = "None"
    THEN Raise("AttributeError", Text("'NoneType' object has no attribute 'invoke'"), <<>>)
    ELSE IF world.invoke_raises
    THEN Raise("RuntimeError", Text("retriever failed"), <<InvokeCall(query)>>)
    ELSE IF world.retrieved = <<>>
    THEN Return([success |-> TRUE,
                 message |-> Text("No relevant documents found"),
                 documents |-> <<>>,
                 count |-> 0], <<InvokeCall(query)>>)
    ELSE RetrieveFilter(pipe, world, query, SliceTo(world.retrieved, top_k))

\* _retrieve_documents once top_k is coerced (tk is the outcome of the coercion)
RetrieveValidate(pipe, world, tk, query) ==
    IF tk.exc # "" THEN Raise(tk.exc, tk.msg, <<>>)
    ELSE IF query = <<>> THEN Return(ErrorEnvelope(Text("Query is required")), <<>>)
    ELSE RetrieveInvoke(pipe, world, query, tk.val)

\* ToolExecutor._retrieve_documents
retrieve_documents(pipe, args, world) ==
    RetrieveValidate(pipe, world, CoerceTopK(args, DefaultTopK),
                     str(Get(args, "query", Get(args, "question", PyStr(<<>>)))))

\* _search_specific_document, "Format results" and the final return
SearchRespond(document_name, filtered_docs, calls) ==
    Return([success |-> TRUE,
            message |-> Text("Retrieved ") \o IntToStr(Len(filtered_docs))
                        \o Text(" chunks from '") \o document_name \o Text("'"),
            documents |-> Projected(filtered_docs),
            count |-> Len(filtered_docs),
            searched_document |-> document_name], calls)

\* _search_specific_document, "Apply relevance filtering" on
\* top_docs = doc_specific[:top_k * 2], then filtered[:top_k]
SearchFilter(pipe, world, document_name, query, top_k, top_docs) ==
    IF CheckerProbe(pipe) # <<>>
    THEN Raise("AttributeError", CheckerProbe(pipe), <<InvokeCall(query)>>)
    ELSE IF world.filter_raises
    THEN Raise("RuntimeError", Text("checker failed"),
               <<InvokeCall(query), FilterCall(query, top_docs)>>)
    ELSE SearchRespond(document_name,
                       Firsts(SliceTo(filter_documents(world.relevant, top_docs), top_k)),
                       <<InvokeCall(query), FilterCall(query, top_docs)>>)

\* _search_specific_document, "Filter by specific document": doc_specific is
\* the scoped list
SearchScoped(pipe, world, document_name, query, top_k, doc_specific) ==
    IF doc_specific = <<>>
    THEN Return([success |-> TRUE,
                 message |-> Text("No content found in '") \o document_name
                             \o Text("' for this query"),
                 documents |-> <<>>,
                 count |-> 0,
                 searched_document |-> document_name], <<InvokeCall(query)>>)
    ELSE SearchFilter(pipe, world, document_name, query, top_k,
                      SliceTo(doc_specific, top_k * 2))

\* _search_specific_document from the hasattr probe on
SearchInvoke(pipe, world, document_name, query, top_k) ==
    IF ~hasattr(pipe, "hybrid_retriever")
    THEN Return(ErrorEnvelope(Text("RAG pipeline not initialized")), <<>>)
    ELSE IF pipe.hybrid_retriever = "None"
    THEN Raise("AttributeError", Text("'NoneType' object has no attribute 'invoke'"), <<>>)
    ELSE IF world.invoke_raises
    THEN Raise("RuntimeError", Text("retriever failed"), <<InvokeCall(query)>>)
    ELSE IF \E d \in Range(world.retrieved) : ~HasMetadata(d)
    THEN Raise("AttributeError", NoMetadataMsg, <<InvokeCall(query)>>)
    ELSE SearchScoped(pipe, world, document_name, query, top_k,
                      ScopedTo(document_name, world.retrieved))

\* _search_specific_document once its three arguments are coerced
SearchValidate(pipe, world, document_name, query, tk) ==
    IF tk.exc # "" THEN Raise(tk.exc, tk.msg, <<>>)
    ELSE IF document_name = <<>> \/ query = <<>>
    THEN Return(ErrorEnvelope(Text("Both document_name and query are required")), <<>>)
    ELSE SearchInvoke(pipe, world, document_name, query, tk.val)

\* ToolExecutor._search_specific_document
search_specific_document(pipe, args, world) ==
    SearchValidate(pipe, world,
                   str(Get(args, "document_name", PyStr(<<>>))),
                   str(Get(args, "query", PyStr(<<>>))),
                   CoerceTopK(args, DefaultTopKSpecific))

\* the loop of _get_document_list collecting the pages without str()
RECURSIVE GroupBySource_RawPages(_, _)
GroupBySource_RawPages(docs, doc_info) ==
    IF docs = <<>> THEN doc_info
    ELSE
        LET doc == Head(docs)
            source == Get(doc.metadata, "source", <<"U", "n", "k", "n", "o", "w", "n">>)
            known == \E i \in 1..Len(doc_info) : doc_info[i].name = source
            info0 == IF known THEN doc_info
                     ELSE doc_info \o <<[name |-> source, pages |-> {}, types |-> {},
                                         chunk_count |-> 0]>>
            page == Get(doc.metadata, "page", PyStr(<<"?">>))
            type == Get(doc.metadata, "type", <<"t", "e", "x", "t">>)
            info1 == [i \in 1..Len(info0) |->
                        IF info0[i].name = source
                        THEN [info0[i] EXCEPT !.pages = @ \cup {page},
                                              !.types = @ \cup {type},
                                              !.chunk_count = @ + 1]
                        ELSE info0[i]]
        IN  GroupBySource_RawPages(Tail(docs), info1)

\* the loop of _get_document_list: doc_info after the documents of docs, a
\* dict kept as the sequence of its values in insertion order
RECURSIVE GroupBySource(_, _)
GroupBySource(docs, doc_info) ==
    IF docs = <<>> THEN doc_info
    ELSE
        LET doc == Head(docs)
            source == Get(doc.metadata, "source", <<"U", "n", "k", "n", "o", "w", "n">>)
            known == \E i \in 1..Len(doc_info) : doc_info[i].name = source
            info0 == IF known THEN doc_info
                     ELSE doc_info \o <<[name |-> source, pages |-> {}, types |-> {},
                                         chunk_count |-> 0]>>
            page == str(Get(doc.metadata, "page", PyStr(<<"?">>)))
            type == Get(doc.metadata, "type", <<"t", "e", "x", "t">>)
            info1 == [i \in 1..Len(info0) |->
                        IF info0[i].name = source
                        THEN [info0[i] EXCEPT !.pages = @ \cup {page},
                                              !.types = @ \cup {type},
                                              !.chunk_count = @ + 1]
                        ELSE info0[i]]
        IN  GroupBySource(Tail(docs), info1)

CatalogEntry(info) ==
    [name |-> info.name,
     total_chunks |-> info.chunk_count,
     page_count |-> Cardinality(info.pages),
     content_types |-> info.types]

\* ToolExecutor._get_document_list
get_document_list(pipe, args, world) ==
    LET docs == world.documents.items
        doc_info == GroupBySource(docs, <<>>)
        documents == [i \in 1..Len(doc_info) |-> CatalogEntry(doc_info[i])]
    IN  IF ~hasattr(pipe, "documents") \/ world.documents.null \/ docs = <<>>
        THEN Return([success |-> FALSE,
                     error |-> Text("No documents loaded in the knowledge base")], <<>>)
        ELSE IF \E d \in Range(docs) : ~HasMetadata(d)
        THEN Raise("AttributeError", NoMetadataMsg, <<>>)
        ELSE Return([success |-> TRUE,
                     message |-> Text("Found ") \o IntToStr(Len(documents))
                                 \o Text(" documents in knowledge base"),
                     documents |-> documents,
                     total_documents |-> Len(documents)], <<>>)

\* the dispatch with the get_document_list branch forgotten
Dispatch_ListNotRouted(pipe, tool_name, tool_args, world) ==
    IF tool_name = "retrieve_documents" THEN retrieve_documents(pipe, tool_args, world)
    ELSE IF tool_name = "search_specific_document"
    THEN search_specific_document(pipe, tool_args, world)
    ELSE Return(ErrorEnvelope(Text("Unknown tool: ") \o Text(tool_name)), <<>>)

\* the dispatch of ToolExecutor.execute_tool, inside its try block
Dispatch(pipe, tool_name, tool_args, world) ==
    IF tool_name = "retrieve_documents" THEN retrieve_documents(pipe, tool_args, world)
    ELSE IF tool_name = "search_specific_document"
    THEN search_specific_document(pipe, tool_args, world)
    ELSE IF tool_name = "get_document_list" THEN get_document_list(pipe, tool_args, world)
    ELSE Return(ErrorEnvelope(Text("Unknown tool: ") \o Text(tool_name)), <<>>)

\* execute_tool without its try/except: a failure of the handler propagates
execute_tool_NoCatch(pipe, tool_name, tool_args, world) ==
    Dispatch(pipe, tool_name, tool_args, world)

\* ToolExecutor.execute_tool: except Exception as e -> {"error": str(e), ...}
execute_tool(pipe, tool_name, tool_args, world) ==
    LET r == Dispatch(pipe, tool_name, tool_args, world)
    IN  IF r.exc # "" THEN Return(ErrorEnvelope(r.msg), r.calls) ELSE r

\* one "--- Document i ---" block of the formatted text
DocBlock(i, doc) ==
    Text("--- Document ") \o IntToStr(i) \o Text(" ---\n")
    \o Text("Source: ") \o doc.source \o Text(", Page: ") \o str(doc.page)
    \o Text(", Type: ") \o doc.type \o Text("\n")
    \o Text("Content: ") \o Text(doc.content) \o Text("\n\n")

RECURSIVE DocBlocks(_, _)
DocBlocks(i, docs) ==
    IF docs = <<>> THEN <<>> ELSE DocBlock(i, Head(docs)) \o DocBlocks(i + 1, Tail(docs))

CatalogLine(doc) ==
    Text("- ") \o doc.name \o Text(": ") \o IntToStr(doc.total_chunks) \o Text(" chunks, ")
    \o IntToStr(doc.page_count) \o Text(" pages\n")

RECURSIVE CatalogLines(_)
CatalogLines(docs) ==
    IF docs = <<>> THEN <<>> ELSE CatalogLine(Head(docs)) \o CatalogLines(Tail(docs))

Formatted(text) == [exc |-> "", text |-> text]

\* the formatter without its check of success
format_NoSuccessCheck(tool_name, result) ==
    LET docs == Get(result, "documents", <<>>)
    IN  IF tool_name = "retrieve_documents" \/ tool_name = "search_specific_document"
        THEN IF docs = <<>>
             THEN Formatted(Text("[") \o Text(tool_name) \o Text("]: ")
                            \o Text("No relevant documents found."))
             ELSE Formatted(Text("[") \o Text(tool_name) \o Text("]: Retrieved ")
                            \o IntToStr(Len(docs)) \o Text(" documents:\n\n")
                            \o DocBlocks(1, docs))
        ELSE IF tool_name = "get_document_list"
        THEN Formatted(Text("[") \o Text(tool_name) \o Text("]: Available documents:\n\n")
                       \o CatalogLines(docs))
        ELSE Formatted(Text("[") \o Text(tool_name) \o Text("]: ") \o Text("json.dumps(result)"))

\* format_tool_result_for_prompt; doc['source'] of a document without that
\* key raises KeyError
format_tool_result_for_prompt(tool_name, result) ==
    LET docs == Get(result, "documents", <<>>)
    IN  IF ~Get(result, "success", FALSE)
        THEN Formatted(Text("[Tool Error - ") \o Text(tool_name) \o Text("]: ")
                       \o Get(result, "error", Text("Unknown error")))
        ELSE IF tool_name = "retrieve_documents" \/ tool_name = "search_specific_document"
        THEN IF docs = <<>>
             THEN Formatted(Text("[") \o Text(tool_name) \o Text("]: ")
                            \o Text("No relevant documents found."))
             ELSE IF \E d \in Range(docs) : ~({"source", "page", "type", "content"} \subseteq DOMAIN d)
             THEN [exc |-> "KeyError", text |-> <<>>]
             ELSE Formatted(Text("[") \o Text(tool_name) \o Text("]: Retrieved ")
                            \o IntToStr(Len(docs)) \o Text(" documents:\n\n")
                            \o DocBlocks(1, docs))
        ELSE IF tool_name = "get_document_list"
        THEN IF \E d \in Range(docs) : ~({"name", "total_chunks", "page_count"} \subseteq DOMAIN d)
             THEN [exc |-> "KeyError", text |-> <<>>]
             ELSE Formatted(Text("[") \o Text(tool_name) \o Text("]: Available documents:\n\n")
                            \o CatalogLines(docs))
        ELSE Formatted(Text("[") \o Text(tool_name) \o Text("]: ") \o Text("json.dumps(result)"))

\* ------------------------------------------------------------------- inputs
Unknown == <<"U", "n", "k", "n", "o", "w", "n">>

D1 == Doc("c1", [source |-> <<"A", "B">>, page |-> PyInt(1), type |-> <<"t", "a", "b">>])
D2 == Doc("c2", [source |-> <<"A", "B">>, page |-> PyStr(<<"1">>)])
D3 == Doc("c3", [source |-> <<"x", "a", "b">>, page |-> PyStr(<<"2">>), type |-> <<"t", "a", "b">>])
D4 == Doc("c4", [source |-> <<"a">>, page |-> PyInt(2)])
D5 == Doc("c5", <<>>)
D6 == Doc("c6", [source |-> Unknown, page |-> PyStr(<<"?">>)])
\* an object without the metadata attribute
D7 == [page_content |-> "c7"]

RetrievableDocs == {D1, D3, D4, D5, D7}
CorpusDocs == {D1, D2, D3, D4, D5, D6, D7}

NoRepeat(xs) == \A i, j \in 1..Len(xs) : i # j => xs[i] # xs[j]

\* the sequences without repetition of at most n elements of S
SeqsUpTo(S, n) == {xs \in UNION {[1..k -> S] : k \in 0..n} : NoRepeat(xs)}

Retrievals == SeqsUpTo(RetrievableDocs, MaxDocs)
Corpora == SeqsUpTo(CorpusDocs, MaxDocs)

NoDocuments == [null |-> FALSE, items |-> <<>>]

\* what the collaborators do when nothing is asked of them
QuietWorld ==
    [invoke_raises |-> FALSE, retrieved |-> <<>>, filter_raises |-> FALSE,
     relevant |-> {}, documents |-> NoDocuments]

RetrievalWorlds ==
    {[QuietWorld EXCEPT !.invoke_raises = TRUE]}
    \cup {[QuietWorld EXCEPT !.retrieved = r, !.filter_raises = TRUE] : r \in Retrievals}
    \cup UNION {{[QuietWorld EXCEPT !.retrieved = r, !.relevant = S] : S \in SUBSET Range(r)}
                : r \in Retrievals}

ListWorlds ==
    {[QuietWorld EXCEPT !.documents = [null |-> TRUE, items |-> <<>>]]}
    \cup {[QuietWorld EXCEPT !.documents = [null |-> FALSE, items |-> c]] : c \in Corpora}

\* the values a caller supplies for top_k
TopKValues ==
    {PyInt(k) : k \in (-MaxTopK)..MaxTopK}
    \cup {PyStr(<<"1">>), PyStr(<<"a", "b", "c">>), PyNone, PyInf, PyNaN, PyEmptyList,
          PyFloat(15)}

WithTopK(A) == A \cup {[k \in DOMAIN a \cup {"top_k"} |->
                          IF k = "top_k" THEN v ELSE a[k]] : a \in A, v \in TopKValues}

Q == PyStr(<<"q">>)
Empty == PyStr(<<>>)

RetrieveArgs ==
    WithTopK({<<>>, [query |-> Q], [question |-> Q], [query |-> Empty],
              [query |-> Empty, question |-> Q], [question |-> Empty], [query |-> PyNone]})

SearchArgs ==
    WithTopK({[document_name |-> PyStr(<<"a">>), query |-> Q],
              [document_name |-> PyStr(<<"A", "B">>), query |-> Q],
              [document_name |-> PyStr(<<"a">>)],
              [query |-> Q],
              [document_name |-> Empty, query |-> Q]})

ListArgs == {<<>>, [query |-> Q]}

UnknownNames == {"delete_documents", "RETRIEVE_DOCUMENTS", ""}

\* self.rag_pipeline as the record of its attributes
Pipelines ==
    {[class |-> "NoneType"],
     [class |-> "object"],
     [class |-> "RAGPipeline", hybrid_retriever |-> "retriever",
      relevance_checker |-> "checker", documents |-> "list"],
     [class |-> "RAGPipeline", hybrid_retriever |-> "None",
      relevance_checker |-> "None", documents |-> "list"],
     [class |-> "RAGPipeline", hybrid_retriever |-> "retriever"],
     [class |-> "RAGPipeline", hybrid_retriever |-> "retriever",
      relevance_checker |-> "None"]}

\* -------------------------------------------------------------- state machine
VARIABLES
    rag_pipeline,   \* ToolExecutor.rag_pipeline, set by __init__
    pc,             \* "ready", "executed" (an envelope is held), "formatted"
    tool_name,      \* the arguments of the execute_tool call in progress
    tool_args,
    world,          \* what the collaborators did during the call
    calls,          \* the collaborator calls the handler made
    result,         \* the envelope execute_tool returned
    prompt          \* the outcome of format_tool_result_for_prompt

vars == <<rag_pipeline, pc, tool_name, tool_args, world, calls, result, prompt>>

NoPrompt == [exc |-> "", text |-> <<>>]

Init ==
    /\ rag_pipeline \in Pipelines
    /\ pc = "ready"
    /\ tool_name = ""
    /\ tool_args = <<>>
    /\ world = QuietWorld
    /\ calls = <<>>
    /\ result = NoEnvelope
    /\ prompt = NoPrompt

\* the world records the behaviour of the collaborators that were called:
\* one that was not called did nothing
Observed(w, r) ==
    /\ (\A i \in 1..Len(r.calls) : r.calls[i].fn # "invoke")
            => ~w.invoke_raises /\ w.retrieved = <<>>
    /\ (\A i \in 1..Len(r.calls) : r.calls[i].fn # "filter_documents")
            => ~w.filter_raises /\ w.relevant = {}

\* one call execute_tool(name, args) while the collaborators behave as w
Execute(name, args, w) ==
    LET r == execute_tool(rag_pipeline, name, args, w)
    IN  /\ Observed(w, r)
        /\ pc' = "executed"
        /\ tool_name' = name
        /\ tool_args' = args
        /\ world' = w
        /\ calls' = r.calls
        /\ result' = r.env
        /\ UNCHANGED <<rag_pipeline, prompt>>

CallRetrieveDocuments ==
    /\ pc = "ready"
    /\ \E args \in RetrieveArgs, w \in RetrievalWorlds : Execute("retrieve_documents", args, w)

CallSearchSpecificDocument ==
    /\ pc = "ready"
    /\ \E args \in SearchArgs, w \in RetrievalWorlds :
        Execute("search_specific_document", args, w)

CallGetDocumentList ==
    /\ pc = "ready"
    /\ \E args \in ListArgs, w \in ListWorlds :
        /\ (~hasattr(rag_pipeline, "documents") => w = QuietWorld)
        /\ Execute("get_document_list", args, w)

CallUnknownTool ==
    /\ pc = "ready"
    /\ \E name \in UnknownNames, args \in ListArgs : Execute(name, args, QuietWorld)

\* the host formats the envelope under the name of the tool it called
FormatResult ==
    /\ pc = "executed"
    /\ pc' = "formatted"
    /\ prompt' = format_tool_result_for_prompt(tool_name, result)
    /\ UNCHANGED <<rag_pipeline, tool_name, tool_args, world, calls, result>>

\* the envelope is discarded after formatting
Discard ==
    /\ pc = "formatted"
    /\ pc' = "ready"
    /\ tool_name' = ""
    /\ tool_args' = <<>>
    /\ world' = QuietWorld
    /\ calls' = <<>>
    /\ result' = NoEnvelope
    /\ prompt' = NoPrompt
    /\ UNCHANGED rag_pipeline

Next ==
    \/ CallRetrieveDocuments
    \/ CallSearchSpecificDocument
    \/ CallGetDocumentList
    \/ CallUnknownTool
    \/ FormatResult
    \/ Discard

Spec == Init /\ [][Next]_vars

\* ------------------------------------------------------------------ claims
Called == pc \in {"executed", "formatted"}

RetrievalTools == {"retrieve_documents", "search_specific_document"}

WellFormed(env) ==
    /\ "success" \in DOMAIN env
    /\ \/ env.success = TRUE /\ "error" \notin DOMAIN env
       \/ env.success = FALSE /\ "error" \in DOMAIN env

\* C1: whatever the tool name, the arguments and the collaborators' behaviour
\* (failures of invoke, filter_documents and metadata access included),
\* execute_tool returns an envelope, and the envelope is exactly one of
\* success=true without error, or success=false with error.
C1_AlwaysWellFormedEnvelope == Called => WellFormed(result)

\* a collaborator failed during the call and the caller still holds an
\* error envelope carrying the failure's message
C1_Witness ==
    /\ pc = "executed"
    /\ world.filter_raises
    /\ Len(calls) = 2
    /\ result = ErrorEnvelope(Text("checker failed"))

\* C2: execute_tool answers "Unknown tool: <n>" exactly for the names that
\* are not entries of TOOL_SCHEMAS: every catalog name is routed to a handler.
C2_CatalogInSync ==
    Called =>
        ((result = ErrorEnvelope(Text("Unknown tool: ") \o Text(tool_name)))
            <=> tool_name \notin CatalogNames)

\* a name that differs from a catalog name only by case is unknown
C2_Witness ==
    /\ pc = "executed"
    /\ tool_name = "RETRIEVE_DOCUMENTS"
    /\ result = ErrorEnvelope(<<"Unknown tool: ", "RETRIEVE_DOCUMENTS">>)

\* the query of a retrieve_documents call is empty or missing
QueryMissing(args) ==
    \/ "query" \notin DOMAIN args /\ "question" \notin DOMAIN args
    \/ "query" \in DOMAIN args /\ str(args.query) = <<>>
    \/ "query" \notin DOMAIN args /\ "question" \in DOMAIN args /\ str(args.question) = <<>>

\* C3: retrieve_documents with an empty or missing query answers
\* "Query is required" for every top_k value and every pipeline, and calls
\* neither invoke nor filter_documents.
C3_EmptyQueryRejected ==
    (Called /\ tool_name = "retrieve_documents" /\ QueryMissing(tool_args))
        => (result = ErrorEnvelope(Text("Query is required")) /\ calls = <<>>)

\* the value cannot be interpreted as an integer
NotAnInteger(v) ==
    \/ v.t \in {"NoneType", "list"}
    \/ v.t = "float" /\ v.s # <<>>
    \/ v.t = "str" /\ ParseInt(v.s).exc # ""

DefaultOf(name) == IF name = "retrieve_documents" THEN DefaultTopK ELSE DefaultTopKSpecific

WithDefaultTopK(name, args) ==
    [k \in DOMAIN args |-> IF k = "top_k" THEN PyInt(DefaultOf(name)) ELSE args[k]]

\* C4: for a retrieval handler, a top_k that cannot be interpreted as an
\* integer gives the very envelope that top_k = 8 (5 for
\* search_specific_document) gives under the same collaborator behaviour.
C4_BadTopKIsDefault ==
    (/\ Called
     /\ tool_name \in RetrievalTools
     /\ "top_k" \in DOMAIN tool_args
     /\ NotAnInteger(tool_args.top_k))
        => result = execute_tool(rag_pipeline, tool_name,
                                 WithDefaultTopK(tool_name, tool_args), world).env

\* C5: every document of a search_specific_document envelope has the
\* requested document_name as a case-insensitive substring of its source.
C5_ScopedToDocument ==
    (Called /\ tool_name = "search_specific_document" /\ "documents" \in DOMAIN result)
        => \A i \in 1..Len(result.documents) :
              contains(lower(str(Get(tool_args, "document_name", PyStr(<<>>)))),
                       lower(result.documents[i].source))

\* a document without source and a document of another source were
\* retrieved, and the envelope holds the two that match up to case
C5_Witness ==
    /\ pc = "executed"
    /\ tool_name = "search_specific_document"
    /\ Get(tool_args, "document_name", PyNone) = PyStr(<<"A", "B">>)
    /\ D5 \in Range(world.retrieved)
    /\ "documents" \in DOMAIN result
    /\ Len(result.documents) = 2
    /\ result.documents[2].source = <<"x", "a", "b">>

\* the source get_document_list files a document under
SourceOf(doc) == IF "source" \in DOMAIN doc.metadata THEN doc.metadata.source ELSE Unknown

\* the page of a document as text
PageOf(doc) == IF "page" \in DOMAIN doc.metadata THEN str(doc.metadata.page) ELSE <<"?">>

\* the position at which a source is first seen in the collection
FirstSeen(docs, source) == CHOOSE i \in 1..Len(docs) :
    /\ SourceOf(docs[i]) = source
    /\ \A j \in 1..(i - 1) : SourceOf(docs[j]) # source

RECURSIVE SumChunks(_)
SumChunks(entries) ==
    IF entries = <<>> THEN 0 ELSE Head(entries).total_chunks + SumChunks(Tail(entries))

Collection == world.documents.items

InvokeReturned == Called /\ calls # <<>> /\ ~world.invoke_raises

\* the documents of docs whose source contains name, case-insensitively
InScopeDocs(name, docs) ==
    {d \in Range(docs) : contains(lower(name), lower(IF "source" \in DOMAIN d.metadata
                                                       THEN d.metadata.source ELSE <<>>))}

\* no document survives the call: the retrieval returned nothing, the
\* scoping kept nothing, or the relevance filter discarded every candidate
NothingSurvives ==
    \/ world.retrieved = <<>>
    \/ /\ tool_name = "search_specific_document"
       /\ InScopeDocs(str(Get(tool_args, "document_name", PyStr(<<>>))), world.retrieved) = {}
    \/ /\ Len(calls) = 2
       /\ ~world.filter_raises
       /\ Range(calls[2].docs) \cap world.relevant = {}

\* C7: an empty result of a retrieval handler is a success: when the
\* retrieval ran and no document survives, the envelope is success=true with
\* documents empty, count 0 and no error; search_specific_document's envelope
\* also carries searched_document = document_name.
C7_EmptyIsSuccess ==
    (/\ tool_name \in RetrievalTools
     /\ InvokeReturned
     /\ \A d \in Range(world.retrieved) : HasMetadata(d)
     /\ NothingSurvives)
        => /\ "error" \notin DOMAIN result
           /\ result.success = TRUE
           /\ Get(result, "documents", <<0>>) = <<>>
           /\ Get(result, "count", -1) = 0
           /\ tool_name = "search_specific_document"
                 => Get(result, "searched_document", <<>>)
                        = str(Get(tool_args, "document_name", PyStr(<<>>)))

\* the relevance filter was handed two scoped candidates and discarded both
C7_Witness ==
    /\ pc = "executed"
    /\ tool_name = "search_specific_document"
    /\ Len(calls) = 2
    /\ Len(calls[2].docs) = 2
    /\ ~world.filter_raises
    /\ world.relevant = {}
    /\ result.success = TRUE
    /\ result.count = 0

\* the retrieval collaborator is unavailable
Unavailable(pipe) ==
    \/ pipe.class = "NoneType"
    \/ ~hasattr(pipe, "hybrid_retriever")
    \/ pipe.hybrid_retriever = "None"
    \/ ~hasattr(pipe, "relevance_checker")
    \/ pipe.relevance_checker = "None"

\* the call passes the handler's validation of its arguments
ValidRetrievalArgs ==
    /\ "top_k" \notin DOMAIN tool_args
    /\ tool_name = "retrieve_documents" => ~QueryMissing(tool_args)
    /\ tool_name = "search_specific_document"
          => /\ str(Get(tool_args, "document_name", PyStr(<<>>))) # <<>>
             /\ str(Get(tool_args, "query", PyStr(<<>>))) # <<>>

\* C8: when the pipeline is absent, has no retriever, or its retriever or
\* relevance filter is missing or null, both retrieval handlers answer
\* "RAG pipeline not initialized".
C8_UnavailableReported ==
    (/\ Called
     /\ tool_name \in RetrievalTools
     /\ ValidRetrievalArgs
     /\ Unavailable(rag_pipeline))
        => result = ErrorEnvelope(Text("RAG pipeline not initialized"))

\* the atoms of text that belong to S, in their order
RECURSIVE OnlyIn(_, _)
OnlyIn(S, text) ==
    IF text = <<>> THEN <<>>
    ELSE (IF Head(text) \in S THEN <<Head(text)>> ELSE <<>>) \o OnlyIn(S, Tail(text))

Contents == {d.page_content : d \in CorpusDocs}

\* C9: format_tool_result_for_prompt does not fail on the envelope
\* execute_tool returned for the tool: a success=false envelope is formatted
\* to "[Tool Error - <name>]: <error>", a success=true envelope without
\* documents of a retrieval tool to a text containing "No relevant documents
\* found.", and otherwise the documents appear in the envelope's order.
C9_FormatterTotal ==
    pc = "formatted" =>
        /\ prompt.exc = ""
        /\ result.success = FALSE
              => prompt.text = <<"[Tool Error - ", tool_name, "]: ">> \o result.error
        /\ (result.success = TRUE /\ tool_name \in RetrievalTools /\ result.documents = <<>>)
              => "No relevant documents found." \in Range(prompt.text)
        /\ (result.success = TRUE /\ tool_name \in RetrievalTools /\ result.documents # <<>>)
              => OnlyIn(Contents, prompt.text)
                    = [i \in 1..Len(result.documents) |-> result.documents[i].content]
        /\ (result.success = TRUE /\ tool_name = "get_document_list")
              => Len(OnlyIn({" chunks, "}, prompt.text)) = Len(result.documents)

\* an envelope of three documents was formatted
C9_Witness ==
    /\ pc = "formatted"
    /\ tool_name = "retrieve_documents"
    /\ result.success = TRUE
    /\ Len(result.documents) = 3
    /\ OnlyIn(Contents, prompt.text) = <<"c4", "c1", "c3">>

Max(a, b) == IF a > b THEN a ELSE b
Min(a, b) == IF a < b THEN a ELSE b

\* the first k elements of xs, none when k <= 0
FirstK(xs, k) == SubSeq(xs, 1, Min(Max(k, 0), Len(xs)))

\* C10: for both retrieval handlers and every integer top_k (0 and negative
\* values included) a success envelope holds at most top_k documents, none
\* when top_k <= 0, and count is their number; retrieve_documents hands the
\* first top_k retrieved documents to the filter, search_specific_document
\* the first 2 * top_k scoped documents (a window of top_k >= 0 documents).
C10_TruncatedToTopK ==
    (/\ Called
     /\ tool_name \in RetrievalTools
     /\ "top_k" \in DOMAIN tool_args
     /\ tool_args.top_k.t = "int"
     /\ result.success = TRUE)
        => /\ Len(result.documents) <= Max(tool_args.top_k.n, 0)
           /\ result.count = Len(result.documents)
           /\ (Len(calls) = 2 /\ tool_name = "retrieve_documents" /\ tool_args.top_k.n >= 0)
                 => calls[2].docs = FirstK(world.retrieved, tool_args.top_k.n)
           /\ (Len(calls) = 2 /\ tool_name = "search_specific_document"
                   /\ tool_args.top_k.n >= 0)
                 => Len(calls[2].docs) <= 2 * tool_args.top_k.n

====
